---- MODULE Spec2Model ----
(***************************************************************************)
(* Model of the cluster helper of gpt-oss-ollama-streamlit:                *)
(*   src/main_cluster.py  the dispatcher (main, _stream_local)             *)
(*   src/hpc.py           profile loading, srun/sbatch composition, the    *)
(*                        generated remote scripts and the ssh transport   *)
(*                                                                         *)
(* Text is modelled as a sequence of atoms.  An atom is either one         *)
(* shell-unsafe character (a member of UnsafeChars) or a run of characters *)
(* that shlex regards as safe, so "a b" is <<"a", " ", "b">> and "cpu" is  *)
(* <<"cpu">>.  A Python value is a record [k, s, i, l]: k is its type      *)
(* ("missing" for an absent dict key, "null" for None, "str", "int",       *)
(* "list"), s its text, i its integer, l its list of texts.                *)
(***************************************************************************)
EXTENDS Integers, Sequences, FiniteSets, TLC

VARIABLES
    args,       \* argparse.Namespace of this run of main_cluster.main
    source,     \* the configuration source: [exists, hasClusters, clusters]
    machine,    \* the invoking machine: [ssh, key, exe] executables and key file found
    pc,         \* position of main
    cfg,        \* the loaded ClusterProfile (dict), NoCfg before the load
    remote,     \* the remote command composed by the mode function
    procs,      \* child processes launched so far, in order
    childRc,    \* exit code the running child will report
    rc,         \* value returned by main, NoRc while it runs
    raised,     \* exception that left main uncaught, "none" otherwise
    node,       \* state of the remote node a generated script runs on
    sh,         \* the remote shell running a generated script
    files,      \* remote directory of batch submissions: name -> owner
    sub,        \* the concurrent batch submissions
    app,        \* the chat app process: module state of utility.py and main()
    disk,       \* _LAST_MODEL_FILE: [exists, model, writer]
    sig,        \* the signal handler invocation in progress
    stops       \* the _run_ollama_stop calls issued: [model, by, writer, session]

vars == <<args, source, machine, pc, cfg, remote, procs, childRc, rc,
          raised, node, sh, files, sub, app, disk, sig, stops>>

dispVars == <<args, source, machine, pc, cfg, remote, procs, childRc, rc, raised>>
nodeVars == <<node, sh>>
batchVars == <<files, sub>>
appVars == <<app, disk, sig, stops>>

----------------------------------------------------------------------------
(* Bounds *)

MaxNum == 2          \* integers of profiles and overrides range over 0..MaxNum
MaxExit == 2         \* child exit codes range over -1..MaxExit and 127, 255
MaxRuns == 2         \* runs of a generated script on one node
MaxSubmitters == 3   \* concurrent invocations of the batch submission
NameCount == 2       \* distinct random suffixes mktemp can draw
MaxReruns == 2       \* script reruns of main() in one app process
MaxSessions == 2     \* app processes started one after the other
MaxDepth == 3        \* nested Python calls before RecursionError

----------------------------------------------------------------------------
(* Python values *)

Missing == [k |-> "missing", s |-> <<>>, i |-> 0, l |-> <<>>]
Null == [k |-> "null", s |-> <<>>, i |-> 0, l |-> <<>>]
S(t) == [k |-> "str", s |-> t, i |-> 0, l |-> <<>>]
I(n) == [k |-> "int", s |-> <<>>, i |-> n, l |-> <<>>]
L(ts) == [k |-> "list", s |-> <<>>, i |-> 0, l |-> ts]

\* Python truth value: None, "", 0 and [] are false
Truthy(v) ==
    \/ v.k = "str" /\ v.s # <<>>
    \/ v.k = "int" /\ v.i # 0
    \/ v.k = "list" /\ v.l # <<>>

\* a or b
Or(a, b) == IF Truthy(a) THEN a ELSE b

\* dict.get(key): None for an absent key
Get(d, key) == IF d[key].k = "missing" THEN Null ELSE d[key]

\* str(v)
Str(v) == IF v.k = "int" THEN <<ToString(v.i)>> ELSE v.s

\* int(v) succeeds on an int and on the numeral of an int
IsNumeral(t) == Len(t) = 1 /\ \E n \in 0..(MaxNum + 1) : ToString(n) = t[1]
NumeralValue(t) == CHOOSE n \in 0..(MaxNum + 1) : ToString(n) = t[1]
IntOk(v) == v.k = "int" \/ (v.k = "str" /\ IsNumeral(v.s))
ToInt(v) == IF v.k = "int" THEN v.i ELSE NumeralValue(v.s)

----------------------------------------------------------------------------
(* Text *)

UnsafeChars == {" ", "'", "\"", "$", "&", ";", "|", "~", "\n", "{", "}", "(", ")", ">", "<", "!", "#", "*"}

\* sep.join(ts)
RECURSIVE Join(_, _)
Join(sep, ts) ==
    IF ts = <<>> THEN <<>>
    ELSE IF Len(ts) = 1 THEN ts[1]
    ELSE ts[1] \o sep \o Join(sep, Tail(ts))

\* s.replace("'", "'\"'\"'")
RECURSIVE EscapeQuotes(_)
EscapeQuotes(t) ==
    IF t = <<>> THEN <<>>
    ELSE (IF Head(t) = "'" THEN <<"'", "\"", "'", "\"", "'">> ELSE <<Head(t)>>)
         \o EscapeQuotes(Tail(t))

\* shlex.quote
shlex_quote(t) ==
    IF t = <<>> THEN <<"'", "'">>
    ELSE IF \A j \in DOMAIN t : t[j] \notin UnsafeChars THEN t
    ELSE <<"'">> \o EscapeQuotes(t) \o <<"'">>

\* The environment of the invoking process seen by _expand
HomeDir == <<"/home/u">>

\* os.path.expandvars(os.path.expanduser(s)): a leading ~ (the texts of this
\* model follow it by a path or by nothing) becomes the home directory and
\* $HOME is substituted; an unset variable is left as it is
RECURSIVE ExpandVars(_)
ExpandVars(t) ==
    IF t = <<>> THEN <<>>
    ELSE IF Len(t) >= 2 /\ t[1] = "$" /\ t[2] = "HOME"
         THEN HomeDir \o ExpandVars(SubSeq(t, 3, Len(t)))
         ELSE <<Head(t)>> \o ExpandVars(Tail(t))

_expand(t) ==
    IF t # <<>> /\ t[1] = "~"
    THEN ExpandVars(HomeDir \o Tail(t))
    ELSE ExpandVars(t)

----------------------------------------------------------------------------
(* ProfileStore: src/hpc.py load_config, _validate_cfg *)

REQUIRED_KEYS == <<"host", "user", "default_partition", "default_ntasks", "default_cpus_per_task">>

ProfileKeys == {"host", "user", "ssh_key", "default_partition", "default_ntasks",
                "default_cpus_per_task", "account", "default_time", "mem", "gpus",
                "pre_commands", "workdir"}

\* data["clusters"][name] or {}
EmptyProfile == [key \in ProfileKeys |-> Missing]

\* a validation that only tests `k not in cfg`
MissingKeys_AbsentOnly(c) ==
    {REQUIRED_KEYS[j] : j \in {n \in DOMAIN REQUIRED_KEYS :
        c[REQUIRED_KEYS[n]].k = "missing"}}

\* keys of REQUIRED_KEYS that are absent, "" or None
MissingKeys(c) ==
    {REQUIRED_KEYS[j] : j \in {n \in DOMAIN REQUIRED_KEYS :
        \/ c[REQUIRED_KEYS[n]].k \in {"missing", "null"}
        \/ c[REQUIRED_KEYS[n]] = S(<<>>)}}

\* _validate_cfg raises ValueError
ValidateFails(c) ==
    \/ MissingKeys(c) # {}
    \/ \E key \in {"default_ntasks", "default_cpus_per_task"} : ~IntOk(c[key])

\* _validate_cfg on a profile it accepts: the two counts become ints and a
\* null default_time becomes ""
_validate_cfg(c) ==
    [key \in ProfileKeys |->
        IF key \in {"default_ntasks", "default_cpus_per_task"} THEN I(ToInt(c[key]))
        ELSE IF key = "default_time" /\ c[key].k = "null" THEN S(<<>>)
        ELSE c[key]]

\* the expansion loop of load_config
ExpandProfile(c) ==
    [key \in ProfileKeys |->
        IF c[key].k = "str" THEN S(_expand(c[key].s))
        ELSE IF c[key].k = "list"
             THEN L([j \in DOMAIN c[key].l |-> _expand(c[key].l[j])])
             ELSE c[key]]

NoCfg == EmptyProfile

\* load_config(name): the exception it raises ("none" when it returns) and
\* the profile it returns
load_config(src, name) ==
    IF ~src.exists THEN [err |-> "FileNotFoundError", cfg |-> NoCfg]
    ELSE IF ~src.hasClusters \/ name \notin DOMAIN src.clusters
         THEN [err |-> "KeyError", cfg |-> NoCfg]
    ELSE LET c == ExpandProfile(src.clusters[name])
         IN  IF ValidateFails(c) THEN [err |-> "ValueError", cfg |-> NoCfg]
             ELSE [err |-> "none", cfg |-> _validate_cfg(c)]

----------------------------------------------------------------------------
(* CommandComposer: src/hpc.py _compose_srun and the header of submit_app_job *)

OverrideKeys == {"partition", "ntasks", "cpus_per_task", "time", "account", "mem", "gpus"}

\* _collect_overrides
_collect_overrides(ns) == [key \in OverrideKeys |-> ns[key]]

\* the seven resolutions shared by _compose_srun and submit_app_job
ResolvePartition(c, o) == Or(Get(o, "partition"), c["default_partition"])
ResolveNtasks(c, o) == ToInt(Or(Get(o, "ntasks"), c["default_ntasks"]))
ResolveCpus(c, o) == ToInt(Or(Get(o, "cpus_per_task"), c["default_cpus_per_task"]))
ResolveAccount(c, o) == Or(Or(Get(o, "account"), Get(c, "account")), S(<<>>))
ResolveTime(c, o) == Or(Or(Get(o, "time"), Get(c, "default_time")), S(<<>>))
\* a composer that falls back to a built-in memory request
ResolveMem_Fallback(c, o) == Or(Or(Get(o, "mem"), Get(c, "mem")), S(<<"4G">>))

ResolveMem(c, o) == Or(Or(Get(o, "mem"), Get(c, "mem")), S(<<>>))
ResolveGpus(c, o) == Or(Or(Get(o, "gpus"), Get(c, "gpus")), S(<<>>))

\* the words of the srun command, in order
SrunParts(c, o, interactive) ==
    <<(<<"srun">>)>>
    \o (IF interactive THEN <<(<<"--pty">>)>> ELSE <<>>)
    \o <<(<<"-p">>), shlex_quote(ResolvePartition(c, o).s),
         <<"--ntasks=", ToString(ResolveNtasks(c, o))>>,
         <<"--cpus-per-task=", ToString(ResolveCpus(c, o))>> >>
    \o (IF Truthy(ResolveAccount(c, o))
        THEN <<(<<"--account">>), shlex_quote(Str(ResolveAccount(c, o)))>> ELSE <<>>)
    \o (IF Truthy(ResolveTime(c, o))
        THEN <<(<<"--time">>), shlex_quote(Str(ResolveTime(c, o)))>> ELSE <<>>)
    \o (IF Truthy(ResolveMem(c, o))
        THEN <<(<<"--mem">>), shlex_quote(Str(ResolveMem(c, o)))>> ELSE <<>>)
    \o (IF Truthy(ResolveGpus(c, o))
        THEN <<(<<"--gpus">>), shlex_quote(Str(ResolveGpus(c, o)))>> ELSE <<>>)

_compose_srun(c, o, interactive) == Join(<<" ">>, SrunParts(c, o, interactive))

\* the #SBATCH lines of submit_app_job, in order
SbatchHeader(c, o) ==
    << <<"#SBATCH -p ">> \o shlex_quote(ResolvePartition(c, o).s),
       <<"#SBATCH --ntasks=", ToString(ResolveNtasks(c, o))>>,
       <<"#SBATCH --cpus-per-task=", ToString(ResolveCpus(c, o))>> >>
    \o (IF Truthy(ResolveAccount(c, o))
        THEN << <<"#SBATCH --account=">> \o Str(ResolveAccount(c, o)) >> ELSE <<>>)
    \o (IF Truthy(ResolveTime(c, o))
        THEN << <<"#SBATCH --time=">> \o Str(ResolveTime(c, o)) >> ELSE <<>>)
    \o (IF Truthy(ResolveMem(c, o))
        THEN << <<"#SBATCH --mem=">> \o Str(ResolveMem(c, o)) >> ELSE <<>>)
    \o (IF Truthy(ResolveGpus(c, o))
        THEN << <<"#SBATCH --gpus=">> \o Str(ResolveGpus(c, o)) >> ELSE <<>>)

----------------------------------------------------------------------------
(* RemoteScriptBuilder: the remote commands of src/hpc.py.                 *)
(* A shell text is a sequence of statements in textual order.  A statement *)
(* is [op, text, join, script]: op names the command, text is its          *)
(* interpolated argument, join is the connective that follows it and       *)
(* script is the nested script of a statement that carries one.            *)

Stmt(op, text, join) == [op |-> op, text |-> text, join |-> join, script |-> <<>>]
Nested(op, text, join, script) == [op |-> op, text |-> text, join |-> join, script |-> script]

\* _prepend_pre_commands: " && ".join(pre) + " && ", "" without pre-commands
_prepend_pre_commands(pre) ==
    IF ~Truthy(pre) THEN <<>>
    ELSE [j \in DOMAIN pre.l |-> Stmt("pre", pre.l[j], "&&")]

\* the bootstrap script of open_interactive_app
Bootstrap(c, port, model, app_py, workdir) ==
    LET cd_line == IF Truthy(workdir)
                   THEN <<Stmt("cd_or_exit2", shlex_quote(workdir.s), ";")>>
                   ELSE <<>>
        before_streamlit == cd_line \o _prepend_pre_commands(Get(c, "pre_commands"))
    IN  <<Stmt("set_e", <<>>, "\n"),
          Stmt("announce", <<ToString(port)>>, "\n"),
          Stmt("start_service", <<>>, "\n"),
          Stmt("export", <<>>, "\n"),
          Stmt("ensure_model", Or(model, S(<<>>)).s, "\n")>>
        \o before_streamlit
        \o <<Stmt("echo_cwd", <<>>, "\n"),
             Stmt("check_app", shlex_quote(app_py), "\n"),
             Stmt("streamlit", shlex_quote(app_py), "\n"),
             Stmt("exec_bash", <<>>, "\n")>>

\* the job script of submit_app_job
JobScript(c, o, port, model, app_py, workdir) ==
    LET header == SbatchHeader(c, o)
        pre == Get(c, "pre_commands")
        pre_cmds == IF Truthy(pre)
                    THEN [j \in DOMAIN pre.l |-> Stmt("pre", pre.l[j], "\n")]
                    ELSE <<>>
        cd_line == IF Truthy(workdir) THEN <<Stmt("cd", shlex_quote(workdir.s), "\n")>>
                   ELSE <<>>
        ensure_model == IF Truthy(model)
                        THEN <<Stmt("ensure_model", shlex_quote(model.s), "\n")>>
                        ELSE <<>>
    IN  [j \in DOMAIN header |-> Stmt("sbatch_directive", header[j], "\n")]
        \o <<Stmt("set_e", <<>>, "\n")>>
        \o pre_cmds
        \o cd_line
        \o <<Stmt("export", <<>>, "\n"),
             Stmt("serve_background", <<>>, "\n"),
             Stmt("sleep", <<>>, "\n")>>
        \o ensure_model
        \o <<Stmt("streamlit", shlex_quote(app_py), "\n")>>

\* A RemoteInvocation: what the mode function hands to ssh_run
Invocation(c, cmd, pty) ==
    [host |-> c["host"].s, user |-> c["user"].s, cmd |-> cmd,
     identity_file |-> Get(c, "ssh_key"), pty |-> pty]

NoInvocation == [host |-> <<>>, user |-> <<>>, cmd |-> <<>>,
                 identity_file |-> Null, pty |-> FALSE]

open_interactive_shell(c, o) ==
    Invocation(c,
        _prepend_pre_commands(Get(c, "pre_commands"))
        \o <<Stmt("srun", _compose_srun(c, o, TRUE), " "),
             Stmt("bash", <<>>, "")>>,
        TRUE)

remote_run(c, command, o, workdir) ==
    Invocation(c,
        (IF Truthy(workdir) THEN <<Stmt("cd", shlex_quote(workdir.s), "&&")>> ELSE <<>>)
        \o _prepend_pre_commands(Get(c, "pre_commands"))
        \o <<Stmt("srun", _compose_srun(c, o, FALSE), " "),
             Stmt("command", command, "")>>,
        FALSE)

open_interactive_app(c, o, port, model, app_py, workdir) ==
    Invocation(c,
        _prepend_pre_commands(Get(c, "pre_commands"))
        \o <<Stmt("srun", _compose_srun(c, o, TRUE), " "),
             Nested("bash_lc", <<>>, "", Bootstrap(c, port, model, app_py, workdir))>>,
        TRUE)

submit_app_job(c, o, port, model, app_py, workdir) ==
    Invocation(c,
        <<Stmt("mktemp", <<"streamlit_app.XXXXXX.sh">>, "\n"),
          Nested("cat_heredoc", <<>>, "\n", JobScript(c, o, port, model, app_py, workdir)),
          Stmt("sbatch", <<>>, "\n"),
          Stmt("echo_job", <<ToString(port)>>, "\n")>>,
        FALSE)

\* the statements of a shell text in textual order, nested scripts inlined
RECURSIVE Flatten(_)
Flatten(cmd) ==
    IF cmd = <<>> THEN <<>>
    ELSE <<Stmt(Head(cmd).op, Head(cmd).text, Head(cmd).join)>>
         \o Flatten(Head(cmd).script) \o Flatten(Tail(cmd))

----------------------------------------------------------------------------
(* TransportRunner: src/hpc.py _build_ssh_base, ssh_run, _run_streaming *)

\* a transport base that drops the pseudo-terminal request
_build_ssh_base_NoTty(host, user, identity_file, pty, keyOnDisk) ==
    LET key_exists == Truthy(identity_file) /\ keyOnDisk
    IN  <<(<<"ssh">>)>>
        \o (IF key_exists
            THEN <<(<<"-i">>), identity_file.s, <<"-o">>, <<"BatchMode=yes">> >>
            ELSE <<(<<"-o">>), <<"BatchMode=no">>, <<"-o">>,
                   <<"PreferredAuthentications=publickey,keyboard-interactive,password">> >>)
        \o <<user \o <<"@">> \o host>>

_build_ssh_base(host, user, identity_file, pty, keyOnDisk) ==
    LET key_exists == Truthy(identity_file) /\ keyOnDisk
    IN  <<(<<"ssh">>)>>
        \o (IF key_exists
            THEN <<(<<"-i">>), identity_file.s, <<"-o">>, <<"BatchMode=yes">> >>
            ELSE <<(<<"-o">>), <<"BatchMode=no">>, <<"-o">>,
                   <<"PreferredAuthentications=publickey,keyboard-interactive,password">> >>)
        \o (IF pty THEN <<(<<"-tt">>)>> ELSE <<>>)
        \o <<user \o <<"@">> \o host>>

\* the child process ssh_run starts: base + ["bash -lc " + quote(cmd)]
SshProcess(inv, keyOnDisk) ==
    [kind |-> "ssh",
     argv |-> _build_ssh_base(inv.host, inv.user, inv.identity_file, inv.pty, keyOnDisk),
     remote |-> inv.cmd]

\* a transport runner that reports a child killed by a signal as a failure 1
_run_streaming_Clamped(code) == IF code < 0 THEN 1 ELSE code

\* _run_streaming returns proc.wait()
_run_streaming(code) == code

----------------------------------------------------------------------------
(* Inputs of the dispatcher *)

BaseProfile ==
    [EmptyProfile EXCEPT !["host"] = S(<<"h">>), !["user"] = S(<<"u">>),
                         !["default_partition"] = S(<<"cpu">>),
                         !["default_ntasks"] = I(1),
                         !["default_cpus_per_task"] = S(<<"2">>)]

FullProfile ==
    [BaseProfile EXCEPT !["ssh_key"] = S(<<"~", "/.ssh/id">>),
                        !["account"] = S(<<"acct">>),
                        !["default_time"] = Null,
                        !["pre_commands"] = L(<< <<"module", " ", "load", " ", "ollama">> >>),
                        !["workdir"] = S(<<"$", "HOME", "/app">>)]

\* records in which one mandatory key is absent, null or ""
InvalidProfiles ==
    {[BaseProfile EXCEPT ![REQUIRED_KEYS[j]] = v] :
        j \in DOMAIN REQUIRED_KEYS, v \in {Missing, Null, S(<<>>)}}

\* the records a configuration source can hold under a cluster name
RawProfiles ==
    {BaseProfile, FullProfile, EmptyProfile,
     [BaseProfile EXCEPT !["default_ntasks"] = S(<<"many">>)],
     [BaseProfile EXCEPT !["default_ntasks"] = I(0),
                         !["default_cpus_per_task"] = I(-1)]}
    \cup InvalidProfiles

Sources ==
    {[exists |-> FALSE, hasClusters |-> FALSE, clusters |-> <<>>],
     [exists |-> TRUE, hasClusters |-> FALSE, clusters |-> <<>>]}
    \cup {[exists |-> TRUE, hasClusters |-> TRUE, clusters |-> [n \in {<<"c1">>} |-> p]] :
            p \in RawProfiles}

NoArgsOverrides == [key \in OverrideKeys |-> Null]

\* override flags of a run: none, a partition and a GPU spec, a task count
DispatchOverrides ==
    {NoArgsOverrides,
     [NoArgsOverrides EXCEPT !["partition"] = S(<<"gpu">>), !["gpus"] = S(<<"1">>)],
     [NoArgsOverrides EXCEPT !["ntasks"] = I(MaxNum)]}

Commands ==
    {L(<<>>), L(<< <<"--">> >>), L(<< <<"--">>, <<"echo">>, <<"hi">> >>),
     L(<< <<"echo">>, <<"a", " ", "b">> >>)}

ArgSpace ==
    {[cluster |-> c, interactive |-> i, interactive_app |-> ia, submit_app |-> sa,
      partition |-> o["partition"], ntasks |-> o["ntasks"],
      cpus_per_task |-> o["cpus_per_task"], time |-> o["time"],
      account |-> o["account"], mem |-> o["mem"], gpus |-> o["gpus"],
      port |-> 8501, model |-> m, app |-> <<"main.py">>, workdir |-> w,
      command |-> cmd] :
        c \in {Null, S(<<"c1">>), S(<<"nope">>)}, i \in BOOLEAN, ia \in BOOLEAN,
        sa \in BOOLEAN, o \in DispatchOverrides, m \in {S(<<>>), S(<<"llama3.1:8b">>)},
        w \in {S(<<>>), S(<<"/no/such/dir">>)}, cmd \in Commands}

Machines == [ssh : BOOLEAN, key : BOOLEAN, exe : {"found", "missing", "denied"}]

ExitCodes == (-1..MaxExit) \cup {127, 255}

----------------------------------------------------------------------------
(* States of the parts a specification leaves alone *)

NodeIdle == [tmux |-> FALSE, session |-> FALSE, serves |-> 0, workdir |-> FALSE,
             appFile |-> FALSE, model |-> FALSE, apps |-> 0]
ShIdle == [script |-> <<>>, ip |-> 0, errexit |-> FALSE, state |-> "idle",
           code |-> 0, trace |-> <<>>, runs |-> 0]

DispatchIdle ==
    /\ args \in {[cluster |-> Null, interactive |-> FALSE, interactive_app |-> FALSE,
                  submit_app |-> FALSE, partition |-> Null, ntasks |-> Null,
                  cpus_per_task |-> Null, time |-> Null, account |-> Null,
                  mem |-> Null, gpus |-> Null, port |-> 8501, model |-> S(<<>>),
                  app |-> <<"main.py">>, workdir |-> S(<<>>), command |-> L(<<>>)]}
    /\ source = [exists |-> FALSE, hasClusters |-> FALSE, clusters |-> <<>>]
    /\ machine = [ssh |-> TRUE, key |-> FALSE, exe |-> "found"]
    /\ pc = "idle"
    /\ cfg = NoCfg
    /\ remote = NoInvocation
    /\ procs = <<>>
    /\ childRc = <<>>
    /\ rc = <<>>
    /\ raised = "none"

NodeIdleInit == node = NodeIdle /\ sh = ShIdle
BatchIdleInit == files = <<>> /\ sub = <<>>

\* signal.getsignal before any registration: default_int_handler for SIGINT,
\* SIG_DFL for SIGTERM
DefaultHandlers == [SIGINT |-> "default_int_handler", SIGTERM |-> "SIG_DFL"]

\* the module state of utility.py in a fresh process of session n
FreshApp(n, mainThread) ==
    [session |-> n, mainThread |-> mainThread, installed |-> FALSE, atexit |-> FALSE,
     handler |-> DefaultHandlers, active |-> "", uiModel |-> "gpt-oss:20b",
     pc |-> "idle", reruns |-> 0]

NoFile == [exists |-> FALSE, model |-> "", writer |-> 0]
SigIdle == [signum |-> "none", depth |-> 0, stage |-> "idle", callee |-> "none"]

AppIdleInit ==
    /\ app = [FreshApp(0, FALSE) EXCEPT !.pc = "dead"]
    /\ disk = NoFile
    /\ sig = SigIdle
    /\ stops = {}

----------------------------------------------------------------------------
(* Dispatcher: src/main_cluster.py main and _stream_local *)

DispatchInit ==
    /\ args \in ArgSpace
    /\ source \in Sources
    /\ machine \in Machines
    /\ pc = "start"
    /\ cfg = NoCfg
    /\ remote = NoInvocation
    /\ procs = <<>>
    /\ childRc = <<>>
    /\ rc = <<>>
    /\ raised = "none"
    /\ NodeIdleInit
    /\ BatchIdleInit
    /\ AppIdleInit

\* a dispatcher that leaves the "--" separator in the command
StripDashes_Keep(command) == command

\* command[1:] when command[0] == "--"
StripDashes(command) ==
    IF command # <<>> /\ command[1] = <<"--">> THEN Tail(command) ELSE command

Return(code) ==
    /\ rc' = <<code>>
    /\ pc' = "done"

\* main without a cluster selector, _stream_local up to Popen
StreamLocal ==
    /\ pc = "start"
    /\ ~Truthy(args.cluster)
    /\ LET command == StripDashes(args.command.l)
       IN  IF command = <<>> THEN Return(2) /\ UNCHANGED procs
           ELSE IF machine.exe = "missing" THEN Return(127) /\ UNCHANGED procs
           ELSE IF machine.exe = "denied" THEN Return(1) /\ UNCHANGED procs
           ELSE /\ procs' = Append(procs, [kind |-> "local", argv |-> command,
                                            remote |-> <<>>])
                /\ pc' = "wait"
                /\ UNCHANGED rc
    /\ UNCHANGED <<args, source, machine, cfg, remote, childRc, raised, nodeVars, batchVars, appVars>>

\* a dispatcher whose except clause lets the ValueError of an invalid profile
\* escape
LoadProfile_NarrowExcept ==
    /\ pc = "start"
    /\ Truthy(args.cluster)
    /\ LET r == load_config(source, args.cluster.s)
       IN  IF r.err = "ValueError"
           THEN raised' = "ValueError" /\ pc' = "done" /\ UNCHANGED <<cfg, rc>>
           ELSE IF r.err # "none" THEN Return(1) /\ UNCHANGED <<cfg, raised>>
           ELSE cfg' = r.cfg /\ pc' = "loaded" /\ UNCHANGED <<rc, raised>>
    /\ UNCHANGED <<args, source, machine, remote, procs, childRc, nodeVars, batchVars, appVars>>

\* main with a cluster selector: load_config and its except clause
LoadProfile ==
    /\ pc = "start"
    /\ Truthy(args.cluster)
    /\ LET r == load_config(source, args.cluster.s)
       IN  IF r.err # "none" THEN Return(1) /\ UNCHANGED cfg
           ELSE cfg' = r.cfg /\ pc' = "loaded" /\ UNCHANGED rc
    /\ UNCHANGED <<args, source, machine, remote, procs, childRc, raised, nodeVars, batchVars, appVars>>

\* workdir = args.workdir or cfg.get("workdir") or None
Workdir == Or(Or(args.workdir, Get(cfg, "workdir")), Null)

\* model=(args.model or None)
Model == Or(args.model, Null)

\* main from the overrides to the call of ssh_run in the mode function
Dispatch ==
    /\ pc = "loaded"
    /\ LET overrides == _collect_overrides(args)
           command == StripDashes(args.command.l)
           quoted == [j \in DOMAIN command |-> shlex_quote(command[j])]
       IN  IF args.interactive_app /\ args.submit_app
           THEN Return(2) /\ UNCHANGED remote
           ELSE IF args.interactive_app
           THEN /\ remote' = open_interactive_app(cfg, overrides, args.port, Model,
                                                  args.app, Workdir)
                /\ pc' = "ssh_run" /\ UNCHANGED rc
           ELSE IF args.submit_app
           THEN /\ remote' = submit_app_job(cfg, overrides, args.port, Model,
                                            args.app, Workdir)
                /\ pc' = "ssh_run" /\ UNCHANGED rc
           ELSE IF args.interactive
           THEN /\ remote' = open_interactive_shell(cfg, overrides)
                /\ pc' = "ssh_run" /\ UNCHANGED rc
           ELSE IF command = <<>>
           THEN Return(2) /\ UNCHANGED remote
           ELSE /\ remote' = remote_run(cfg, Join(<<" ">>, quoted), overrides, Workdir)
                /\ pc' = "ssh_run" /\ UNCHANGED rc
    /\ UNCHANGED <<args, source, machine, cfg, procs, childRc, raised, nodeVars, batchVars, appVars>>

\* ssh_run: subprocess.Popen of the transport; a missing executable raises
\* FileNotFoundError, which nothing between _run_streaming and main catches
SshPopen ==
    /\ pc = "ssh_run"
    /\ IF machine.ssh
       THEN /\ procs' = Append(procs, SshProcess(remote, machine.key))
            /\ pc' = "wait"
            /\ UNCHANGED raised
       ELSE /\ raised' = "FileNotFoundError"
            /\ pc' = "done"
            /\ UNCHANGED procs
    /\ UNCHANGED <<args, source, machine, cfg, remote, childRc, rc, nodeVars, batchVars, appVars>>

\* the child process terminates
ChildExit ==
    /\ pc = "wait"
    /\ \E code \in ExitCodes : childRc' = <<code>>
    /\ pc' = "reap"
    /\ UNCHANGED <<args, source, machine, cfg, remote, procs, rc, raised, nodeVars, batchVars, appVars>>

\* proc.wait() returns and the value travels up to main's return
Reap ==
    /\ pc = "reap"
    /\ Return(_run_streaming(childRc[1]))
    /\ UNCHANGED <<args, source, machine, cfg, remote, procs, childRc, raised, nodeVars, batchVars, appVars>>

\* raise SystemExit(main()): the exit status of the process, 1 for an
\* uncaught exception
ExitStatus == IF raised # "none" THEN 1 ELSE rc[1] % 256

DispatchNext == StreamLocal \/ LoadProfile \/ Dispatch \/ SshPopen \/ ChildExit \/ Reap

SpecDispatch == DispatchInit /\ [][DispatchNext]_vars

----------------------------------------------------------------------------
(* Properties of the dispatcher *)

SshLaunched == \E j \in DOMAIN procs : procs[j].kind = "ssh"

\* C1: whenever both --interactive-app and --submit-app are selected, main
\* exits with code 2 and no ssh transport or other child process is launched,
\* whatever the other arguments and the configuration source are.
C1_UsageConflictAlwaysExits2 ==
    (args.interactive_app /\ args.submit_app)
        => /\ procs = <<>>
           /\ pc = "done" => (raised = "none" /\ rc = <<2>>)

\* C2: with a cluster selector, a failing load_config (file absent, profile
\* not present, invalid profile) makes main return 1 with no child process
\* started.
C2_LoadFailureExits1 ==
    (Truthy(args.cluster) /\ load_config(source, args.cluster.s).err # "none")
        => /\ procs = <<>>
           /\ pc \in {"start", "done"}
           /\ pc = "done" => (raised = "none" /\ rc = <<1>>)

C2_Witness ==
    /\ pc = "done"
    /\ Truthy(args.cluster)
    /\ load_config(source, args.cluster.s).err = "ValueError"
    /\ rc = <<1>>
    /\ procs = <<>>

\* C4: in each remote mode, once the transport has been launched, the value
\* main returns is the exit code of the ssh child, whatever that code is.
C4_ExitCodePassedThrough ==
    (pc = "done" /\ SshLaunched) => (raised = "none" /\ rc = childRc)

C4_Witness ==
    /\ pc = "done"
    /\ SshLaunched
    /\ args.interactive_app
    /\ childRc = <<-1>>
    /\ rc = <<-1>>

\* C5: in every remote mode, when the ssh executable cannot be located at
\* the time the transport is invoked, the process exit code is 127.
C5_MissingTransportExits127 ==
    (pc = "done" /\ remote # NoInvocation /\ ~machine.ssh) => ExitStatus = 127

\* C6: in the plain command, interactive shell and service bootstrap shapes
\* a configured workdir yields a directory change that stands before the
\* pre-commands, the srun invocation, the service start and the payload.
C6_WorkdirChangeComesFirst ==
    (remote # NoInvocation /\ ~args.submit_app /\ Truthy(Workdir))
        => LET f == Flatten(remote.cmd)
           IN  \E j \in DOMAIN f :
                 /\ f[j].op \in {"cd", "cd_or_exit2"}
                 /\ \A n \in DOMAIN f :
                      f[n].op \in {"pre", "srun", "start_service", "bash", "bash_lc",
                                   "command", "streamlit"} => j < n

\* the record the configuration source holds for the selected cluster
SelectedRecord == source.clusters[args.cluster.s]

HasSelectedRecord ==
    /\ Truthy(args.cluster)
    /\ source.exists /\ source.hasClusters
    /\ args.cluster.s \in DOMAIN source.clusters

\* C12: a profile record in which host, user, default_partition,
\* default_ntasks or default_cpus_per_task is missing or empty makes
\* load_config fail with the invalid-profile error, and the run ends
\* without composing a scheduler command or invoking the transport.
C12_MissingMandatoryFieldStops ==
    (HasSelectedRecord /\
     \E j \in DOMAIN REQUIRED_KEYS :
        \/ SelectedRecord[REQUIRED_KEYS[j]].k \in {"missing", "null"}
        \/ SelectedRecord[REQUIRED_KEYS[j]] = S(<<>>))
        => /\ load_config(source, args.cluster.s).err = "ValueError"
           /\ cfg = NoCfg
           /\ remote = NoInvocation
           /\ procs = <<>>
           /\ pc \notin {"loaded", "ssh_run", "wait", "reap"}

C12_Witness ==
    /\ HasSelectedRecord
    /\ SelectedRecord["host"] = S(<<>>)
    /\ pc = "done"
    /\ rc = <<1>>
    /\ remote = NoInvocation

\* C13: after a successful profile load default_ntasks and
\* default_cpus_per_task are positive integers; a zero, negative or
\* non-integer value is never returned by load_config.
C13_LoadedCountsPositive ==
    pc \in {"loaded", "ssh_run", "wait", "reap"} =>
        \A key \in {"default_ntasks", "default_cpus_per_task"} :
            cfg[key].k = "int" /\ cfg[key].i > 0

\* the ssh child asks for a pseudo-terminal
RequestsTty(p) == \E n \in DOMAIN p.argv : p.argv[n] = <<"-tt">>

\* the remote command of the child allocates through srun with --pty
SrunHasPty(p) ==
    \E n \in DOMAIN p.remote :
        /\ p.remote[n].op = "srun"
        /\ \E a \in DOMAIN p.remote[n].text : p.remote[n].text[a] = "--pty"

\* C15: the transport is asked for a pseudo-terminal exactly in the
\* interactive-shell and interactive-service modes, never for a plain
\* command or a batch submission, and the srun --pty flag is present
\* exactly when the transport pseudo-terminal is requested.
C15_PtyOnlyInInteractiveModes ==
    \A j \in DOMAIN procs :
        procs[j].kind = "ssh" =>
            /\ RequestsTty(procs[j])
                 <=> (args.interactive_app \/ (args.interactive /\ ~args.submit_app))
            /\ SrunHasPty(procs[j]) <=> RequestsTty(procs[j])

C15_Witness ==
    /\ pc = "wait"
    /\ args.interactive /\ ~args.interactive_app /\ ~args.submit_app
    /\ Len(procs) = 1
    /\ RequestsTty(procs[1])
    /\ SrunHasPty(procs[1])

\* the words the operator gave after the optional "--" separator
SuppliedCommand ==
    IF args.command.l # <<>> /\ args.command.l[1] = <<"--">>
    THEN SubSeq(args.command.l, 2, Len(args.command.l))
    ELSE args.command.l

\* C16 as stated: without a cluster selector the dispatcher loads no profile,
\* invokes no ssh transport, runs the operator's command as a single local
\* child process and returns that child's exit code.
C16_LocalAlwaysRunsOneChild ==
    (~Truthy(args.cluster) /\ pc = "done")
        => /\ cfg = NoCfg
           /\ remote = NoInvocation
           /\ Len(procs) = 1
           /\ procs[1].kind = "local"
           /\ rc = childRc

\* C16 as amended: without a cluster selector, whatever mode or override
\* flags are set, no profile is loaded and no ssh transport is invoked; a
\* supplied command whose executable starts runs as the single local child
\* and its exit code is returned; with no command main returns 2, and with
\* an executable that is not found or cannot be started 127 or 1, each
\* time without a child process.
C16_LocalRouteStaysLocal ==
    ~Truthy(args.cluster)
        => /\ cfg = NoCfg
           /\ remote = NoInvocation
           /\ Len(procs) <= 1
           /\ \A j \in DOMAIN procs :
                procs[j].kind = "local" /\ procs[j].argv = SuppliedCommand
           /\ pc = "done" =>
                /\ raised = "none"
                /\ IF procs # <<>> THEN rc = childRc
                   ELSE IF SuppliedCommand = <<>> THEN rc = <<2>>
                   ELSE IF machine.exe = "missing" THEN rc = <<127>>
                   ELSE rc = <<1>>

C16_Witness ==
    /\ ~Truthy(args.cluster)
    /\ args.interactive /\ args.interactive_app /\ args.submit_app
    /\ args.partition # Null
    /\ pc = "done"
    /\ Len(procs) = 1
    /\ procs[1].kind = "local"
    /\ childRc = <<1>>
    /\ rc = <<1>>

----------------------------------------------------------------------------
(* The composer on its own: every override against every profile *)

ComposeRawProfiles ==
    {BaseProfile,
     [BaseProfile EXCEPT !["default_ntasks"] = S(<<ToString(MaxNum)>>),
                         !["account"] = S(<<"acct">>),
                         !["default_time"] = S(<<"01:00:00">>),
                         !["mem"] = S(<<"8G">>),
                         !["gpus"] = I(1)],
     [BaseProfile EXCEPT !["default_partition"] = S(<<"big", " ", "mem">>),
                         !["default_time"] = Null,
                         !["mem"] = S(<<>>)]}

ComposeOverrides ==
    {[partition |-> p, ntasks |-> n, cpus_per_task |-> c, time |-> t,
      account |-> a, mem |-> m, gpus |-> g] :
        p \in {Null, S(<<"gpu">>), S(<<"it", "'", "s">>)},
        n \in {Null} \cup {I(j) : j \in 0..MaxNum},
        c \in {Null} \cup {I(j) : j \in 0..MaxNum},
        t \in {Null, S(<<"00:10:00">>)},
        a \in {Null, S(<<"proj">>), S(<<"my", " ", "proj">>)},
        m \in {Null, S(<<"16G">>)},
        g \in {Null, S(<<"gpu:1">>), S(<<"$", "G", "&", "&", "1">>)}}

ComposeInit ==
    /\ source \in {[exists |-> TRUE, hasClusters |-> TRUE,
                    clusters |-> [n \in {<<"c1">>} |-> p]] : p \in ComposeRawProfiles}
    /\ args \in {[cluster |-> S(<<"c1">>), interactive |-> FALSE,
                  interactive_app |-> FALSE, submit_app |-> FALSE,
                  partition |-> o.partition, ntasks |-> o.ntasks,
                  cpus_per_task |-> o.cpus_per_task, time |-> o.time,
                  account |-> o.account, mem |-> o.mem, gpus |-> o.gpus,
                  port |-> 8501, model |-> S(<<>>), app |-> <<"main.py">>,
                  workdir |-> S(<<>>), command |-> L(<<>>)] : o \in ComposeOverrides}
    /\ machine = [ssh |-> TRUE, key |-> FALSE, exe |-> "found"]
    /\ pc = "compose"
    /\ cfg = load_config(source, args.cluster.s).cfg
    /\ remote = NoInvocation
    /\ procs = <<>>
    /\ childRc = <<>>
    /\ rc = <<>>
    /\ raised = "none"
    /\ NodeIdleInit
    /\ BatchIdleInit
    /\ AppIdleInit

\* _compose_srun applied to the profile and the collected overrides
ComposeSrun ==
    /\ pc = "compose"
    /\ \E interactive \in BOOLEAN :
         remote' = Invocation(cfg,
                      <<Stmt("srun", _compose_srun(cfg, _collect_overrides(args), interactive), "")>>,
                      interactive)
    /\ pc' = "srun"
    /\ UNCHANGED <<args, source, machine, cfg, procs, childRc, rc, raised, nodeVars, batchVars, appVars>>

\* the header of submit_app_job applied to the same inputs
ComposeHeader ==
    /\ pc = "compose"
    /\ LET header == SbatchHeader(cfg, _collect_overrides(args))
       IN  remote' = Invocation(cfg,
                        [j \in DOMAIN header |-> Stmt("sbatch_directive", header[j], "\n")],
                        FALSE)
    /\ pc' = "header"
    /\ UNCHANGED <<args, source, machine, cfg, procs, childRc, rc, raised, nodeVars, batchVars, appVars>>

ComposeNext == ComposeSrun \/ ComposeHeader

SpecCompose == ComposeInit /\ [][ComposeNext]_vars

\* t contains u as a run of consecutive atoms
Contains(t, u) ==
    \E j \in 0..(Len(t) - Len(u)) : SubSeq(t, j + 1, j + Len(u)) = u

\* the composed text carries value v for the field: after its srun flag, or
\* in its #SBATCH line
Carries(field, v) ==
    LET quoted == IF v.k = "int" THEN <<ToString(v.i)>> ELSE shlex_quote(v.s)
        plain == Str(v)
        srunFlag == [partition |-> <<"-p", " ">>, ntasks |-> <<"--ntasks=">>,
                     cpus_per_task |-> <<"--cpus-per-task=">>,
                     time |-> <<"--time", " ">>, account |-> <<"--account", " ">>,
                     mem |-> <<"--mem", " ">>, gpus |-> <<"--gpus", " ">>]
        line == [partition |-> <<"#SBATCH -p ">> \o quoted,
                 ntasks |-> <<"#SBATCH --ntasks=">> \o plain,
                 cpus_per_task |-> <<"#SBATCH --cpus-per-task=">> \o plain,
                 time |-> <<"#SBATCH --time=">> \o plain,
                 account |-> <<"#SBATCH --account=">> \o plain,
                 mem |-> <<"#SBATCH --mem=">> \o plain,
                 gpus |-> <<"#SBATCH --gpus=">> \o plain]
    IN  IF pc = "srun"
        THEN Contains(remote.cmd[1].text \o <<" ">>, srunFlag[field] \o quoted \o <<" ">>)
        ELSE \E j \in DOMAIN remote.cmd : remote.cmd[j].text = line[field]

\* the profile key that holds the default of an override field
DefaultKey ==
    [partition |-> "default_partition", ntasks |-> "default_ntasks",
     cpus_per_task |-> "default_cpus_per_task", time |-> "default_time",
     account |-> "account", mem |-> "mem", gpus |-> "gpus"]

\* C3: for every resource field, an override the operator supplies wins: the
\* composed scheduler command carries the override value and not the
\* profile default.
C3_PresentOverrideWins ==
    pc \in {"srun", "header"} =>
        \A field \in OverrideKeys :
            args[field].k # "null" =>
                /\ Carries(field, args[field])
                /\ (Truthy(cfg[DefaultKey[field]]) /\ Str(cfg[DefaultKey[field]]) # Str(args[field]))
                     => ~Carries(field, cfg[DefaultKey[field]])

\* The words a POSIX shell reads from a text: blanks separate words outside
\* quotes, '...' is literal, "..." is literal for the atoms of this model
\* except $, which starts an expansion and does not survive as itself.
\* mode is "plain", "single" or "double"; cur is the word being read and
\* open tells whether a word has begun.
RECURSIVE ShellWords(_, _, _, _)
ShellWords(t, mode, cur, open) ==
    IF t = <<>> THEN (IF open THEN <<cur>> ELSE <<>>)
    ELSE LET a == Head(t)
             r == Tail(t)
         IN  IF mode = "single"
             THEN IF a = "'" THEN ShellWords(r, "plain", cur, TRUE)
                  ELSE ShellWords(r, "single", Append(cur, a), TRUE)
             ELSE IF mode = "double"
             THEN IF a = "\"" THEN ShellWords(r, "plain", cur, TRUE)
                  ELSE IF a = "$" THEN ShellWords(r, "double", Append(cur, "<expansion>"), TRUE)
                  ELSE ShellWords(r, "double", Append(cur, a), TRUE)
             ELSE IF a = " "
             THEN (IF open THEN <<cur>> ELSE <<>>) \o ShellWords(r, "plain", <<>>, FALSE)
             ELSE IF a = "'" THEN ShellWords(r, "single", cur, TRUE)
             ELSE IF a = "\"" THEN ShellWords(r, "double", cur, TRUE)
             ELSE IF a = "$" THEN ShellWords(r, "plain", Append(cur, "<expansion>"), TRUE)
             ELSE IF a \in {"&", ";", "|"}
             THEN (IF open THEN <<cur>> ELSE <<>>) \o << <<"<operator>">> >>
                  \o ShellWords(r, "plain", <<>>, FALSE)
             ELSE ShellWords(r, "plain", Append(cur, a), TRUE)

ShellSplit(t) == ShellWords(t, "plain", <<>>, FALSE)

\* the value of a text field as the composed text hands it on: the word
\* after its srun flag, or what follows the flag in its #SBATCH line
ReadsBackAs(field, v) ==
    LET flag == [partition |-> <<"-p">>, time |-> <<"--time">>,
                 account |-> <<"--account">>, mem |-> <<"--mem">>,
                 gpus |-> <<"--gpus">>]
        directive == [partition |-> "#SBATCH -p ", time |-> "#SBATCH --time=",
                      account |-> "#SBATCH --account=", mem |-> "#SBATCH --mem=",
                      gpus |-> "#SBATCH --gpus="]
        words == ShellSplit(remote.cmd[1].text)
    IN  IF pc = "srun"
        THEN \E j \in 1..(Len(words) - 1) : words[j] = flag[field] /\ words[j + 1] = v
        ELSE \E j \in DOMAIN remote.cmd :
                /\ remote.cmd[j].text[1] = directive[field]
                /\ ShellSplit(Tail(remote.cmd[j].text)) = <<v>>

TextFields == {"partition", "time", "account", "mem", "gpus"}

\* the value the precedence rule resolves for a field, as text
Resolved(field) ==
    Or(Or(Get(args, field), Get(cfg, DefaultKey[field])), S(<<>>))

\* C11: every value that comes from profile or override text (partition,
\* account, time limit, memory, GPU spec) is quoted at each place where it
\* is put into a composed scheduler command, the srun command and the
\* #SBATCH header alike, so that the shell reads it back as one argument
\* equal to the original string.
C11_QuotedValuesReadBack ==
    pc \in {"srun", "header"} =>
        \A field \in TextFields :
            Truthy(Resolved(field)) => ReadsBackAs(field, Str(Resolved(field)))

OptionalFields == {"account", "time", "mem", "gpus"}

\* the field is in neither the overrides nor the profile record
AbsentEverywhere(field) ==
    /\ args[field].k = "null"
    /\ SelectedRecord[DefaultKey[field]].k \in {"missing", "null"}

\* the composed text has the flag of the field: as a word of the srun
\* command, or as the directive of a #SBATCH line
HasFlag(field) ==
    LET flag == [time |-> "--time", account |-> "--account", mem |-> "--mem",
                 gpus |-> "--gpus"]
        directive == [time |-> "#SBATCH --time=", account |-> "#SBATCH --account=",
                      mem |-> "#SBATCH --mem=", gpus |-> "#SBATCH --gpus="]
    IN  IF pc = "srun"
        THEN \E j \in DOMAIN remote.cmd[1].text : remote.cmd[1].text[j] = flag[field]
        ELSE \E j \in DOMAIN remote.cmd : remote.cmd[j].text[1] = directive[field]

\* C14: an optional resource field (account, time limit, memory, GPU spec)
\* that is absent from both the overrides and the profile has its flag in
\* neither the srun command nor the #SBATCH block; no fallback is inserted.
C14_AbsentFieldHasNoFlag ==
    pc \in {"srun", "header"} =>
        \A field \in OptionalFields : AbsentEverywhere(field) => ~HasFlag(field)

C14_Witness ==
    /\ pc = "header"
    /\ \A field \in OptionalFields : AbsentEverywhere(field)
    /\ Len(remote.cmd) = 3
    /\ \A field \in OptionalFields : ~HasFlag(field)

----------------------------------------------------------------------------
(* The generated scripts at run time: bash on the compute node executing   *)
(* the bootstrap of open_interactive_app or the job script of              *)
(* submit_app_job, statement by statement.                                 *)

Nodes == [tmux : BOOLEAN, session : {FALSE}, serves : {0}, workdir : BOOLEAN,
          appFile : BOOLEAN, model : BOOLEAN, apps : {0}]

\* exit statuses of a command that fails or is interrupted
FailCodes == (1..MaxExit) \cup {130}

BootstrapInit ==
    /\ source \in {[exists |-> TRUE, hasClusters |-> TRUE,
                    clusters |-> [n \in {<<"c1">>} |-> p]] : p \in {BaseProfile, FullProfile}}
    /\ args \in {[cluster |-> S(<<"c1">>), interactive |-> FALSE,
                  interactive_app |-> ia, submit_app |-> ~ia,
                  partition |-> Null, ntasks |-> Null, cpus_per_task |-> Null,
                  time |-> Null, account |-> Null, mem |-> Null, gpus |-> Null,
                  port |-> 8501, model |-> m, app |-> <<"main.py">>,
                  workdir |-> w, command |-> L(<<>>)] :
                    ia \in BOOLEAN, m \in {S(<<>>), S(<<"llama3.1:8b">>)},
                    w \in {S(<<>>), S(<<"/no/such/dir">>)}}
    /\ machine = [ssh |-> TRUE, key |-> FALSE, exe |-> "found"]
    /\ pc = "wait"
    /\ cfg = load_config(source, args.cluster.s).cfg
    /\ remote = IF args.interactive_app
                THEN open_interactive_app(cfg, _collect_overrides(args), args.port,
                                          Model, args.app, Workdir)
                ELSE submit_app_job(cfg, _collect_overrides(args), args.port,
                                    Model, args.app, Workdir)
    /\ procs = <<SshProcess(remote, machine.key)>>
    /\ childRc = <<>>
    /\ rc = <<>>
    /\ raised = "none"
    /\ node \in Nodes
    /\ sh = ShIdle
    /\ BatchIdleInit
    /\ AppIdleInit

\* the script the remote command carries: the argument of bash -lc, or the
\* here-document handed to sbatch
GeneratedScript ==
    LET carriers == {j \in DOMAIN remote.cmd : remote.cmd[j].script # <<>>}
    IN  remote.cmd[CHOOSE j \in carriers : TRUE].script

CurrentStmt == sh.script[sh.ip]

Running(ops) == sh.state = "run" /\ CurrentStmt.op \in ops

\* the statement completed with status 0: go on with the next one, or leave
\* with status 0 at the end of the script
Advance(n) ==
    IF n > Len(sh.script)
    THEN sh' = [sh EXCEPT !.state = "exit", !.code = 0, !.trace = Append(@, CurrentStmt.op)]
    ELSE sh' = [sh EXCEPT !.ip = n, !.trace = Append(@, CurrentStmt.op)]

\* exit N
Exit(code) == sh' = [sh EXCEPT !.state = "exit", !.code = code, !.trace = Append(@, CurrentStmt.op)]

\* the last statement of the && list that the statement at n belongs to
RECURSIVE ListEnd(_)
ListEnd(n) ==
    IF n >= Len(sh.script) \/ sh.script[n].join # "&&" THEN n ELSE ListEnd(n + 1)

\* a simple command returned a non-zero status: inside a && list the rest of
\* the list is skipped and errexit does not apply; elsewhere set -e ends the
\* script with that status, and the last statement's status is the script's
Fail(code) ==
    IF CurrentStmt.join = "&&" THEN Advance(ListEnd(sh.ip) + 1)
    ELSE IF sh.errexit \/ sh.ip = Len(sh.script) THEN Exit(code)
    ELSE Advance(sh.ip + 1)

\* srun or sbatch starts the generated script on the node
StartScript ==
    /\ sh.state \in {"idle", "exit", "shell"}
    /\ sh.runs < MaxRuns
    /\ sh' = [script |-> GeneratedScript, ip |-> 1, errexit |-> FALSE, state |-> "run",
              code |-> 0, trace |-> <<>>, runs |-> sh.runs + 1]
    /\ UNCHANGED <<node, dispVars, batchVars, appVars>>

\* set -e
ShSetE ==
    /\ Running({"set_e"})
    /\ sh' = [sh EXCEPT !.errexit = TRUE, !.ip = @ + 1, !.trace = Append(@, "set_e")]
    /\ UNCHANGED <<node, dispVars, batchVars, appVars>>

\* echo, export, sleep and the #SBATCH comment lines
ShPlain ==
    /\ Running({"announce", "export", "echo_cwd", "sleep", "sbatch_directive"})
    /\ Advance(sh.ip + 1)
    /\ UNCHANGED <<node, dispVars, batchVars, appVars>>

\* "Start or ensure Ollama server" of the bootstrap
ShStartService ==
    /\ Running({"start_service"})
    /\ IF node.tmux
       THEN IF node.session THEN UNCHANGED node
            ELSE node' = [node EXCEPT !.session = TRUE, !.serves = @ + 1]
       ELSE node' = [node EXCEPT !.serves = @ + 1]
    /\ Advance(sh.ip + 1)
    /\ UNCHANGED <<dispVars, batchVars, appVars>>

\* ollama serve & of the job script
ShServeBackground ==
    /\ Running({"serve_background"})
    /\ node' = [node EXCEPT !.serves = @ + 1]
    /\ Advance(sh.ip + 1)
    /\ UNCHANGED <<dispVars, batchVars, appVars>>

\* ollama show || ollama pull; the pull can fail
ShEnsureModel ==
    /\ Running({"ensure_model"})
    /\ IF CurrentStmt.text = <<>> \/ node.model
       THEN Advance(sh.ip + 1) /\ UNCHANGED node
       ELSE \/ node' = [node EXCEPT !.model = TRUE] /\ Advance(sh.ip + 1)
            \/ UNCHANGED node /\ Fail(1)
    /\ UNCHANGED <<dispVars, batchVars, appVars>>

\* cd W || { echo ...; pwd; ls -la; exit 2; } of the bootstrap
ShCdOrExit2 ==
    /\ Running({"cd_or_exit2"})
    /\ IF node.workdir THEN Advance(sh.ip + 1) ELSE Exit(2)
    /\ UNCHANGED <<node, dispVars, batchVars, appVars>>

\* cd W of the job script
ShCd ==
    /\ Running({"cd"})
    /\ IF node.workdir THEN Advance(sh.ip + 1) ELSE Fail(1)
    /\ UNCHANGED <<node, dispVars, batchVars, appVars>>

\* a pre-command of the profile succeeds or fails
ShPre ==
    /\ Running({"pre"})
    /\ \/ Advance(sh.ip + 1)
       \/ \E code \in FailCodes : Fail(code)
    /\ UNCHANGED <<node, dispVars, batchVars, appVars>>

\* if [ ! -f app ]; then ...; exit 2; fi
ShCheckApp ==
    /\ Running({"check_app"})
    /\ IF node.appFile THEN Advance(sh.ip + 1) ELSE Exit(2)
    /\ UNCHANGED <<node, dispVars, batchVars, appVars>>

\* streamlit run in the foreground until it exits with some status
ShStreamlit ==
    /\ Running({"streamlit"})
    /\ node' = [node EXCEPT !.apps = @ + 1]
    /\ \/ Advance(sh.ip + 1)
       \/ \E code \in FailCodes : Fail(code)
    /\ UNCHANGED <<dispVars, batchVars, appVars>>

\* exec bash
ShExecBash ==
    /\ Running({"exec_bash"})
    /\ sh' = [sh EXCEPT !.state = "shell", !.trace = Append(@, "exec_bash")]
    /\ UNCHANGED <<node, dispVars, batchVars, appVars>>

BootstrapNext ==
    \/ StartScript \/ ShSetE \/ ShPlain \/ ShStartService \/ ShServeBackground
    \/ ShEnsureModel \/ ShCdOrExit2 \/ ShCd \/ ShPre \/ ShCheckApp \/ ShStreamlit
    \/ ShExecBash

SpecBootstrap == BootstrapInit /\ [][BootstrapNext]_vars

Ran(op) == \E j \in DOMAIN sh.trace : sh.trace[j] = op

\* C7: a generated ServiceBootstrap script run with a configured workdir
\* that does not exist on the remote host exits with code 2 and never reaches
\* the application start (streamlit run).
C7_MissingWorkdirExits2 ==
    (Truthy(Workdir) /\ ~node.workdir)
        => /\ ~Ran("streamlit")
           /\ sh.state # "shell"
           /\ sh.state = "exit" => sh.code = 2

\* C8: in the interactive bootstrap script, once the foreground application
\* (streamlit run) has exited, with whatever status, the script drops into
\* an interactive shell (exec bash).
C8_ShellAfterAppExit ==
    (args.interactive_app /\ Ran("streamlit"))
        => \/ sh.state = "shell"
           \/ sh.state = "run" /\ CurrentStmt.op = "exec_bash"

\* C9: the service start is idempotent on every path, with or without tmux:
\* however often the bootstrap runs on a node, ollama serve is started at
\* most once.
C9_ServiceStartedOnce == node.serves <= 1

----------------------------------------------------------------------------
(* Concurrent batch submissions: the remote command of submit_app_job run  *)
(* by several invocations in the same remote directory.  files maps the    *)
(* suffix of a streamlit_app.<suffix>.sh file to its content, the number   *)
(* of the invocation whose script it holds (0 while empty).                *)

Submitters == 1..MaxSubmitters
Names == 1..NameCount

\* the suffixes no process may draw while leaving an existing file alone
FreshNames_Unchecked(existing) == Names

\* mktemp streamlit_app.XXXXXX.sh creates the file exclusively: it draws a
\* suffix for which no file exists yet
FreshNames(existing) == Names \ existing

BatchInit ==
    /\ DispatchIdle
    /\ NodeIdleInit
    /\ AppIdleInit
    /\ files \in {<<>>, <<0>>}
    /\ sub = [i \in Submitters |-> [pc |-> "mktemp", jobfile |-> <<>>, submitted |-> <<>>]]

\* JOBFILE=$(mktemp streamlit_app.XXXXXX.sh); empty when mktemp fails
Mktemp(i) ==
    /\ sub[i].pc = "mktemp"
    /\ IF FreshNames(DOMAIN files) = {}
       THEN /\ sub' = [sub EXCEPT ![i].pc = "cat"]
            /\ UNCHANGED files
       ELSE \E n \in FreshNames(DOMAIN files) :
              /\ files' = [m \in DOMAIN files \cup {n} |-> IF m = n THEN 0 ELSE files[m]]
              /\ sub' = [sub EXCEPT ![i].pc = "cat", ![i].jobfile = <<n>>]
    /\ UNCHANGED <<dispVars, nodeVars, appVars>>

\* cat <<'EOF' > $JOBFILE: an empty $JOBFILE is a redirection error and the
\* command line goes on
WriteScript(i) ==
    /\ sub[i].pc = "cat"
    /\ IF sub[i].jobfile = <<>> THEN UNCHANGED files
       ELSE files' = [files EXCEPT ![sub[i].jobfile[1]] = i]
    /\ sub' = [sub EXCEPT ![i].pc = "sbatch"]
    /\ UNCHANGED <<dispVars, nodeVars, appVars>>

\* jid=$(sbatch --parsable "$JOBFILE"): the scheduler reads the file
Sbatch(i) ==
    /\ sub[i].pc = "sbatch"
    /\ sub' = [sub EXCEPT ![i].pc = "echo",
                          ![i].submitted = IF sub[i].jobfile = <<>> THEN <<>>
                                           ELSE <<files[sub[i].jobfile[1]]>>]
    /\ UNCHANGED <<files, dispVars, nodeVars, appVars>>

\* the four echo lines
EchoJob(i) ==
    /\ sub[i].pc = "echo"
    /\ sub' = [sub EXCEPT ![i].pc = "done"]
    /\ UNCHANGED <<files, dispVars, nodeVars, appVars>>

BatchNext == \E i \in Submitters : Mktemp(i) \/ WriteScript(i) \/ Sbatch(i) \/ EchoJob(i)

SpecBatch == BatchInit /\ [][BatchNext]_vars

\* C10: under any interleaving of concurrent batch submissions in one remote
\* directory the job-script files they create have pairwise distinct names,
\* and no invocation overwrites or submits the script of another.
C10_DistinctJobFiles ==
    /\ \A i, j \in Submitters :
         (i # j /\ sub[i].jobfile # <<>> /\ sub[j].jobfile # <<>>)
            => sub[i].jobfile # sub[j].jobfile
    /\ \A i \in Submitters :
         /\ sub[i].submitted \in {<<>>, <<i>>}
         /\ (sub[i].jobfile # <<>> /\ sub[i].pc \in {"sbatch", "echo", "done"})
              => files[sub[i].jobfile[1]] = i

C10_Witness ==
    \E i, j \in Submitters :
        /\ i # j
        /\ sub[i].pc = "done" /\ sub[j].pc = "done"
        /\ sub[i].submitted = <<i>> /\ sub[j].submitted = <<j>>

----------------------------------------------------------------------------
(* The chat app process: src/utility.py driven by src/main.py main().      *)
(* A session is one app process; a process that ends is followed by the    *)
(* next session, which starts from fresh module state and finds the disk   *)
(* as the previous one left it.                                            *)

Models == {"gpt-oss:20b", "llama3.1:8b"}

AppInit ==
    /\ DispatchIdle
    /\ NodeIdleInit
    /\ BatchIdleInit
    /\ app \in {FreshApp(1, t) : t \in BOOLEAN}
    /\ disk \in {NoFile} \cup {[exists |-> TRUE, model |-> m, writer |-> 0] : m \in Models}
    /\ sig = SigIdle
    /\ stops = {}

\* a call of _run_ollama_stop(model); writer is the session that recorded
\* the model the call stops
Stop(model, by, writer) ==
    [model |-> model, by |-> by, writer |-> writer, session |-> app.session]

\* the _run_ollama_stop calls of shutdown_active_model
ShutdownStops ==
    (IF app.active # "" THEN {Stop(app.active, "shutdown", app.session)} ELSE {})
    \cup (IF disk.exists /\ disk.model # ""
          THEN {Stop(disk.model, "shutdown", disk.writer)} ELSE {})

\* shutdown_active_model: stop the active and the persisted model and unlink
\* the file; the caller clears _ACTIVE_MODEL in app
shutdown_active_model ==
    /\ stops' = stops \cup ShutdownStops
    /\ disk' = NoFile

\* the process is gone; the next session starts
NextSession ==
    IF app.session < MaxSessions
    THEN \E t \in BOOLEAN : app' = FreshApp(app.session + 1, t)
    ELSE app' = [app EXCEPT !.pc = "dead", !.active = ""]

\* main() line 18: register_process_shutdown, once per process; signal.signal
\* raises ValueError outside the main thread and the except clause passes
RegisterProcessShutdown ==
    /\ app.pc = "idle"
    /\ app.reruns < MaxReruns
    /\ sig = SigIdle
    /\ IF app.installed THEN app' = [app EXCEPT !.pc = "cleanup"]
       ELSE app' = [app EXCEPT !.pc = "cleanup", !.installed = TRUE, !.atexit = TRUE,
                               !.handler = IF app.mainThread
                                           THEN [SIGINT |-> "_sig_handler",
                                                 SIGTERM |-> "_sig_handler"]
                                           ELSE @]
    /\ UNCHANGED <<disk, sig, stops, dispVars, nodeVars, batchVars>>

\* main() line 20: cleanup_stale_from_previous_session
CleanupStale ==
    /\ app.pc = "cleanup"
    /\ sig = SigIdle
    /\ IF disk.exists
       THEN /\ stops' = IF disk.model # ""
                        THEN stops \cup {Stop(disk.model, "cleanup", disk.writer)}
                        ELSE stops
            /\ disk' = NoFile
       ELSE UNCHANGED <<disk, stops>>
    /\ app' = [app EXCEPT !.pc = "select"]
    /\ UNCHANGED <<sig, dispVars, nodeVars, batchVars>>

\* main() lines 112-115: stop_previous_if_changed, then the session state
\* and remember_active_model take the model chosen in the sidebar
SelectModel ==
    /\ app.pc = "select"
    /\ sig = SigIdle
    /\ \E m \in Models :
         /\ stops' = IF app.uiModel # "" /\ app.uiModel # m
                     THEN stops \cup {Stop(app.uiModel, "switch", app.session)}
                     ELSE stops
         /\ app' = [app EXCEPT !.uiModel = m, !.active = m, !.pc = "idlecheck"]
         /\ disk' = [exists |-> TRUE, model |-> m, writer |-> app.session]
    /\ UNCHANGED <<sig, dispVars, nodeVars, batchVars>>

\* main() lines 118-121: maybe_stop_if_idle; whether the timeout has passed
\* is the clock's choice
IdleCheck ==
    /\ app.pc = "idlecheck"
    /\ sig = SigIdle
    /\ \/ stops' = stops \cup {Stop(app.uiModel, "idle", app.session)}
       \/ UNCHANGED stops
    /\ app' = [app EXCEPT !.pc = "idle", !.reruns = @ + 1]
    /\ UNCHANGED <<disk, sig, dispVars, nodeVars, batchVars>>

\* normal interpreter exit: the atexit hook runs shutdown_active_model
ExitClean ==
    /\ app.pc \in {"idle", "dying"}
    /\ sig = SigIdle
    /\ IF app.atexit THEN shutdown_active_model ELSE UNCHANGED <<disk, stops>>
    /\ NextSession
    /\ UNCHANGED <<sig, dispVars, nodeVars, batchVars>>

\* the process is killed: no hook runs and the file stays
Crash ==
    /\ app.pc \notin {"dead", "dying"}
    /\ NextSession
    /\ sig' = SigIdle
    /\ UNCHANGED <<disk, stops, dispVars, nodeVars, batchVars>>

\* SIGINT or SIGTERM arrives: the installed handler is entered; SIG_DFL
\* ends the process at once; default_int_handler raises KeyboardInterrupt
DeliverSignal ==
    /\ app.pc \notin {"dead", "dying"}
    /\ sig = SigIdle
    /\ \E signum \in {"SIGINT", "SIGTERM"} :
         IF app.handler[signum] = "_sig_handler"
         THEN /\ sig' = [signum |-> signum, depth |-> 1, stage |-> "try", callee |-> "none"]
              /\ UNCHANGED app
         ELSE IF app.handler[signum] = "SIG_DFL"
         THEN NextSession /\ UNCHANGED sig
         ELSE app' = [app EXCEPT !.pc = "dying"] /\ UNCHANGED sig
    /\ UNCHANGED <<disk, stops, dispVars, nodeVars, batchVars>>

\* _sig_handler, the try block: shutdown_active_model()
SigShutdown ==
    /\ sig.stage = "try"
    /\ shutdown_active_model
    /\ app' = [app EXCEPT !.active = ""]
    /\ sig' = [sig EXCEPT !.stage = "finally"]
    /\ UNCHANGED <<dispVars, nodeVars, batchVars>>

\* _sig_handler, the finally block: original = signal.getsignal(signum) is
\* read now, and called when callable; Python nests calls up to its
\* recursion limit and then raises RecursionError
SigCallOriginal ==
    /\ sig.stage = "finally"
    /\ LET original == app.handler[sig.signum]
       IN  IF original = "SIG_DFL"
           THEN sig' = [sig EXCEPT !.stage = "returned"]
           ELSE IF original = "default_int_handler"
           THEN sig' = [sig EXCEPT !.stage = "raised", !.callee = original]
           ELSE IF sig.depth < MaxDepth
           THEN sig' = [sig EXCEPT !.stage = "try", !.depth = @ + 1, !.callee = original]
           ELSE sig' = [sig EXCEPT !.stage = "raised", !.callee = original]
    /\ UNCHANGED <<app, disk, stops, dispVars, nodeVars, batchVars>>

\* the outermost _sig_handler is left: by return, or by the exception that
\* then ends the interpreter
SigLeave ==
    /\ sig.stage \in {"returned", "raised"}
    /\ app' = IF sig.stage = "raised" THEN [app EXCEPT !.pc = "dying"] ELSE app
    /\ sig' = SigIdle
    /\ UNCHANGED <<disk, stops, dispVars, nodeVars, batchVars>>

AppNext ==
    \/ RegisterProcessShutdown \/ CleanupStale \/ SelectModel \/ IdleCheck
    \/ ExitClean \/ Crash \/ DeliverSignal \/ SigShutdown \/ SigCallOriginal
    \/ SigLeave

SpecApp == AppInit /\ [][AppNext]_vars

\* C17: once register_process_shutdown has run, a delivered SIGINT or
\* SIGTERM runs shutdown_active_model and then hands over to the handler
\* that was installed for the signal before registration, and with that
\* the handling ends: _sig_handler is entered once and what it calls is the
\* original handler.
C17_HandlerChainsToOriginal ==
    sig.stage # "idle" =>
        /\ sig.depth = 1
        /\ sig.callee \in {"none", DefaultHandlers[sig.signum]}

\* C18: across the script reruns of main() in one app process,
\* cleanup_stale_from_previous_session stops only a model that a previous
\* session recorded; it never stops the model the running process itself
\* recorded with remember_active_model.
C18_CleanupSparesOwnModel ==
    \A s \in stops : s.by = "cleanup" => s.writer # s.session

====
